---------------------------- MODULE Spec2Model ----------------------------
(***************************************************************************)
(* Model of the detection de-duplication and temporal-stability tracker of *)
(* detect_and_capture.py: the geometry helpers, non_max_suppression, and   *)
(* the main loop (associate detections, age unmatched tracks, key          *)
(* handling).                                                              *)
(*                                                                         *)
(* Numbers.  Box coordinates are integers.  An IoU is a quotient of two    *)
(* integers computed in double precision and compared with the literals    *)
(* 0.3 and 0.4.  IEEE division is correctly rounded, so a quotient equal   *)
(* to 3/10 (or 4/10) yields exactly the double the literal denotes, and    *)
(* for the small integers used here two different quotients never round    *)
(* to the same double.  A quotient is therefore kept as the pair           *)
(* <<numerator, denominator>> and compared by cross-multiplication.        *)
(***************************************************************************)
EXTENDS Integers, Sequences, FiniteSets, TLC

VARIABLES
    \* ---- non_max_suppression, as a function under test ----
    boxes,            \* argument boxes: sequence of <<x1, y1, x2, y2>>
    scores,           \* argument scores: sequence, or None
    iou_threshold,    \* argument iou_threshold, a quotient <<n, d>>
    idxs,             \* the rank order np.argsort(...)[::-1] produced
    pick,             \* the picked indices, in pick order
    nms_result,       \* the returned list of boxes
    nms_again,        \* what a second call, on nms_result, returned
    nms_pc,           \* "call" before the call, "ret" after it, "ret2"
                      \* after the second call
    \* ---- main loop of detect_and_capture.py ----
    tracked,          \* dict id -> info, in insertion order: sequence of
                      \* [id, count, last_xyxy, misses]
    next_track_id,
    boxes_xyxy,       \* post-NMS candidates of the last frame read
    used_track_ids,
    key,              \* the key the last cv2.waitKey returned: "c", "q",
                      \* "other" (any other key, or none), "unset" before
    saved,            \* ids whose crop the iteration's key handling wrote
    consec,           \* history: id -> consecutive frames matched, held at
                      \* STABLE_FRAMES_REQUIRED once reached
    gone,             \* history: the ids of the tracks dropped so far
    same,             \* history: the number of frames, counted from a frame
                      \* that found the table empty, that all had the same
                      \* single candidate; 0 when the last frame is not one
    pc,               \* position in the main loop
    \* ---- one pass of "for box in boxes_xyxy", as a step under test ----
    box,              \* the candidate of the pass
    new_tracked,      \* keys of new_tracked, in insertion order
    fresh,            \* the info dicts created so far in the frame
    \* ---- iou_xyxy, as a function under test ----
    iou_a, iou_b,     \* the arguments
    iou_ab,           \* iou_xyxy(iou_a, iou_b)
    iou_ba,           \* iou_xyxy(iou_b, iou_a)
    iou_aa,           \* iou_xyxy(iou_a, iou_a)
    iou_pc,           \* "call" before the calls, "ret" after them
    \* ---- build_dataset of dataset_builder.py ----
    captured,
    auto_mode,
    stable_count,
    ds_pc,            \* "loop" inside "while True", "done" after it
    ds_last,          \* what the last iteration did: "empty" (no frame),
                      \* "quit", "auto" or "manual" (a save), "none"
    ds_idx,           \* history: the idx of every filename made so far
    face_run,         \* history: how many of the last processed frames in
                      \* a row had a face, held at STABLE_FRAMES
    since_auto,       \* history: the processed frames since the last
                      \* automatic save, held at STABLE_FRAMES
    \* ---- the launcher app.py, one session ----
    processes,        \* st.session_state.processes: script -> handle
    launched,         \* the processes Popen started, in order: sequence of
                      \* [script, running]; a handle is a place in it
    app_req,          \* the request the last run of the page handled
    app_msg           \* the message that run showed for it

nmsVars   == <<boxes, scores, iou_threshold, idxs, pick, nms_result,
               nms_again, nms_pc>>
loopVars  == <<tracked, next_track_id, boxes_xyxy, used_track_ids, key, saved,
               consec, gone, same, pc>>
passVars  == <<box, new_tracked, fresh>>
iouVars   == <<iou_a, iou_b, iou_ab, iou_ba, iou_aa, iou_pc>>
builderVars == <<captured, auto_mode, stable_count, ds_pc, ds_last, ds_idx,
                 face_run, since_auto>>
appVars   == <<processes, launched, app_req, app_msg>>
\* what the tracker's specifications leave alone
restVars  == <<iouVars, builderVars, appVars>>
vars      == <<nmsVars, loopVars, passVars, restVars>>

(***************************************************************************)
(* Configuration                                                           *)
(***************************************************************************)
STABLE_FRAMES_REQUIRED == 3
MAX_MISSES == 1
NMS_OVERLAP_THRESH == <<4, 10>>
\* the literal 0.3 of "if best_iou > 0.3 and best_id is not None"
MATCH_THRESH == <<3, 10>>

(***************************************************************************)
(* Bounds of the model                                                     *)
(***************************************************************************)
MaxBoxes == 3        \* longest argument list given to non_max_suppression
MaxTrackIds == 4     \* ids the session may hand out
MaxCount == 4        \* largest hit count followed
MaxTable == 2        \* most tracks in a table given to the pass under test
MaxCoord == 2        \* largest coordinate of a box given to iou_xyxy
MaxStable == 4       \* largest stable_count followed in build_dataset
MaxLaunches == 4     \* most processes a launcher session starts

(***************************************************************************)
(* Quotients                                                               *)
(***************************************************************************)
Max2(a, b) == IF a >= b THEN a ELSE b
Min2(a, b) == IF a <= b THEN a ELSE b

\* the same quotient with a positive denominator
Pos(q) == IF q[2] < 0 THEN <<-q[1], -q[2]>> ELSE q
QLe(p, q) == Pos(p)[1] * Pos(q)[2] <= Pos(q)[1] * Pos(p)[2]
QGt(p, q) == ~QLe(p, q)
QEq(p, q) == Pos(p)[1] * Pos(q)[2] = Pos(q)[1] * Pos(p)[2]
Zero == <<0, 1>>

(***************************************************************************)
(* Helper functions                                                        *)
(***************************************************************************)
rect_to_xyxy(rect) ==
    <<rect[1], rect[2], rect[1] + rect[3], rect[2] + rect[4]>>

\* faulty variant of Area: the sides without the "+ 1"
AreaExclusive(b) == (b[3] - b[1]) * (b[4] - b[2])
\* (x2 - x1 + 1) * (y2 - y1 + 1)
Area(b) == (b[3] - b[1] + 1) * (b[4] - b[2] + 1)

\* faulty variant of Inter: the overlap's sides are not clamped at 0
InterUnclamped(a, b) ==
    LET iw == Min2(a[3], b[3]) - Max2(a[1], b[1]) + 1
        ih == Min2(a[4], b[4]) - Max2(a[2], b[2]) + 1
    IN  iw * ih

\* w * h of the overlap, each side clamped at 0
Inter(a, b) ==
    LET iw == Max2(0, Min2(a[3], b[3]) - Max2(a[1], b[1]) + 1)
        ih == Max2(0, Min2(a[4], b[4]) - Max2(a[2], b[2]) + 1)
    IN  iw * ih

iou_xyxy(a, b) ==
    LET inter == Inter(a, b)
        union == Area(a) + Area(b) - inter
    IN  IF union = 0 THEN Zero ELSE <<inter, union>>

(***************************************************************************)
(* non_max_suppression                                                     *)
(***************************************************************************)
None == <<>>

\* faulty variant of NmsKeeps: the comparison turned round
NmsKeepsFlipped(bs, i, j, thr) ==
    LET inter == Inter(bs[i], bs[j])
        union == Area(bs[i]) + Area(bs[j]) - inter
    IN  union # 0 /\ QGt(<<inter, union>>, thr)

\* "iou <= iou_threshold" for box j against the picked box i.  numpy divides
\* without a guard: a zero union (with a zero overlap) gives nan, and
\* nan <= t is false.
NmsKeeps(bs, i, j, thr) ==
    LET inter == Inter(bs[i], bs[j])
        union == Area(bs[i]) + Area(bs[j]) - inter
    IN  union # 0 /\ QLe(<<inter, union>>, thr)

\* the key the boxes are ranked by: areas, or scores when given
RankKey(bs, sc) == [i \in 1..Len(bs) |-> IF sc = None THEN Area(bs[i]) ELSE sc[i]]

\* np.argsort(rank)[::-1], rank being areas or scores.  argsort's default
\* kind is not a stable sort, so the order among equal keys is whatever the
\* build produces: every arrangement of the indices in which the keys do
\* not increase.
RECURSIVE Descending(_, _)
Descending(rank, left) ==
    IF left = {} THEN { <<>> }
    ELSE LET top == { i \in left : \A j \in left : rank[i] >= rank[j] }
         IN  UNION { { <<i>> \o rest : rest \in Descending(rank, left \ {i}) } :
                     i \in top }

ArgsortReversed(rank) == Descending(rank, 1..Len(rank))

\* faulty variant of NmsLoop: "idxs = idxs[keep_idxs]", although keep_idxs
\* are positions in idxs[1:]
RECURSIVE NmsLoopNoShift(_, _, _, _)
NmsLoopNoShift(bs, order, thr, picked) ==
    IF order = <<>> THEN picked
    ELSE LET i == Head(order)
             at == { k \in 1..(Len(order) - 1) : NmsKeeps(bs, i, order[k + 1], thr) }
             keep == SelectSeq([k \in 1..Len(order) |-> k], LAMBDA k : k \in at)
         IN  NmsLoopNoShift(bs, [k \in 1..Len(keep) |-> order[keep[k]]], thr,
                            Append(picked, i))

\* the while loop: pick the head, keep of the rest what it does not suppress
RECURSIVE NmsLoop(_, _, _, _)
NmsLoop(bs, order, thr, picked) ==
    IF order = <<>> THEN picked
    ELSE LET i == Head(order)
             rest == Tail(order)
             keep == SelectSeq(rest, LAMBDA j : NmsKeeps(bs, i, j, thr))
         IN  NmsLoop(bs, keep, thr, Append(picked, i))

\* the picked indices for a given rank order
NmsPick(bs, order, thr) ==
    IF Len(bs) = 0 THEN <<>> ELSE NmsLoop(bs, order, thr, <<>>)

\* boxes[pick].astype(int).tolist(): the coordinates went to float and come
\* back; for integers of this size both conversions are exact
NmsBoxes(bs, picked) == [k \in 1..Len(picked) |-> bs[picked[k]]]

\* all results non_max_suppression can return
non_max_suppression(bs, sc, thr) ==
    IF Len(bs) = 0 THEN { <<>> }
    ELSE { NmsBoxes(bs, NmsPick(bs, p, thr)) : p \in ArgsortReversed(RankKey(bs, sc)) }

(***************************************************************************)
(* Function under test: non_max_suppression(boxes, scores, iou_threshold)  *)
(***************************************************************************)
\* argument boxes tried: two near-duplicates, a box a third over the first,
\* a box whose IoU with the first is exactly 0.4, and a zero-area box
NmsBoxUniverse ==
    { <<0, 0, 9, 9>>, <<0, 1, 9, 10>>, <<0, 5, 9, 14>>, <<0, 0, 9, 3>>,
      <<5, 5, 4, 9>> }
NmsThresholds == { <<0, 1>>, <<4, 10>>, <<3, 4>> }
ScoreValues == {1, 2}

SeqsUpTo(S, n) == UNION { [1..k -> S] : k \in 0..n }

IouIdle ==
    /\ iou_a = <<>> /\ iou_b = <<>>
    /\ iou_ab = Zero /\ iou_ba = Zero /\ iou_aa = Zero /\ iou_pc = "off"

BuilderIdle ==
    /\ captured = 0 /\ auto_mode = TRUE /\ stable_count = 0 /\ ds_pc = "off"
    /\ ds_last = "none" /\ ds_idx = {} /\ face_run = 0 /\ since_auto = 0

AppIdle ==
    /\ processes = <<>> /\ launched = <<>> /\ app_req = <<>> /\ app_msg = ""

RestIdle == IouIdle /\ BuilderIdle /\ AppIdle

LoopIdle ==
    /\ tracked = <<>> /\ next_track_id = 0 /\ boxes_xyxy = <<>>
    /\ used_track_ids = {} /\ saved = {} /\ consec = <<>> /\ gone = {}
    /\ same = 0 /\ key = "unset"
    /\ pc = "off"

PassIdle == box = <<>> /\ new_tracked = <<>> /\ fresh = <<>>

NmsIdle ==
    /\ boxes = <<>> /\ scores = None /\ iou_threshold = NMS_OVERLAP_THRESH
    /\ idxs = <<>> /\ pick = <<>> /\ nms_result = <<>> /\ nms_again = <<>>
    /\ nms_pc = "off"

InitNms ==
    /\ boxes \in SeqsUpTo(NmsBoxUniverse, MaxBoxes)
    /\ scores \in {None} \cup [1..Len(boxes) -> ScoreValues]
    /\ iou_threshold \in NmsThresholds
    /\ idxs = <<>> /\ pick = <<>> /\ nms_result = <<>> /\ nms_again = <<>>
    /\ nms_pc = "call"
    /\ LoopIdle
    /\ PassIdle
    /\ RestIdle

\* one call of non_max_suppression
CallNms ==
    /\ nms_pc = "call"
    /\ \E p \in ArgsortReversed(RankKey(boxes, scores)) :
          /\ idxs' = (IF Len(boxes) = 0 THEN <<>> ELSE p)
          /\ pick' = NmsPick(boxes, p, iou_threshold)
          /\ nms_result' = NmsBoxes(boxes, NmsPick(boxes, p, iou_threshold))
    /\ nms_pc' = "ret"
    /\ UNCHANGED <<boxes, scores, iou_threshold, nms_again, loopVars, passVars,
                   restVars>>

\* the scores of the boxes the first call returned
PickedScores == IF scores = None THEN None
                ELSE [k \in 1..Len(pick) |-> scores[pick[k]]]

\* a second call, on the list the first returned, with the same threshold
CallNmsAgain ==
    /\ nms_pc = "ret"
    /\ nms_again' \in non_max_suppression(nms_result, PickedScores, iou_threshold)
    /\ nms_pc' = "ret2"
    /\ UNCHANGED <<boxes, scores, iou_threshold, idxs, pick, nms_result,
                   loopVars, passVars, restVars>>

NextNms == CallNms \/ CallNmsAgain
SpecNms == InitNms /\ [][NextNms]_vars


(***************************************************************************)
(* Main loop of detect_and_capture.py: association and aging               *)
(***************************************************************************)
\* best_id = None
NoId == -1

Ids(tr) == { tr[k].id : k \in 1..Len(tr) }
At(tr, id) == tr[CHOOSE k \in 1..Len(tr) : tr[k].id = id]
InSeq(x, sq) == \E k \in 1..Len(sq) : sq[k] = x

\* "for tid, info in tracked.items()": the first track, in the dict's
\* order, whose IoU with the box is strictly above every earlier one's
RECURSIVE BestFrom(_, _, _, _, _)
BestFrom(b, tr, k, best_id, best_iou) ==
    IF k > Len(tr) THEN [id |-> best_id, iou |-> best_iou]
    ELSE LET score == iou_xyxy(b, tr[k].last_xyxy)
         IN  IF QGt(score, best_iou)
             THEN BestFrom(b, tr, k + 1, tr[k].id, score)
             ELSE BestFrom(b, tr, k + 1, best_id, best_iou)

BestMatch(b, tr) == BestFrom(b, tr, 1, NoId, Zero)

\* faulty variant of IsMatch: best_iou >= 0.3
IsMatchAtLeast(best) == ~QGt(MATCH_THRESH, best.iou) /\ best.id # NoId
\* "if best_iou > 0.3 and best_id is not None"
IsMatch(best) == QGt(best.iou, MATCH_THRESH) /\ best.id # NoId

\* faulty variant of MatchedInfo: the count goes down
MatchedInfoDown(info, b) ==
    [info EXCEPT !.count = @ - 1, !.last_xyxy = b, !.misses = 0]

\* the update of a matched track's info
MatchedInfo(info, b) ==
    [info EXCEPT !.count = @ + 1, !.last_xyxy = b, !.misses = 0]

\* {"count": 1, "last_xyxy": box, "misses": 0} under the key id
NewInfo(id, b) == [id |-> id, count |-> 1, last_xyxy |-> b, misses |-> 0]

\* faulty variant of NextId: the counter is left as it is
SameId(n) == n
\* "next_track_id += 1"
NextId(n) == n + 1

\* The bookkeeping of a frame: st.tracked is the dict tracked, whose info
\* dicts are updated in place; st.keys are the keys of new_tracked in
\* insertion order; st.fresh the info dicts created in the frame; st.used
\* is used_track_ids; st.next is next_track_id.
FrameStart(tr, n) ==
    [tracked |-> tr, keys |-> <<>>, fresh |-> <<>>, used |-> {}, next |-> n]

\* storing under a key the dict already holds keeps the key's place
PutKey(keys, id) == IF InSeq(id, keys) THEN keys ELSE Append(keys, id)

\* the branch "Match found: update that track".  info is the dict held by
\* tracked, so the later boxes of the frame are compared with the new box.
PassMatch(st, b, best_id) ==
    [st EXCEPT
        !.tracked = [k \in 1..Len(st.tracked) |->
                        IF st.tracked[k].id = best_id
                        THEN MatchedInfo(st.tracked[k], b)
                        ELSE st.tracked[k]],
        !.keys = PutKey(st.keys, best_id),
        !.used = st.used \cup {best_id}]

\* the branch "No good match: create a new track"
PassNew(st, b) ==
    [st EXCEPT
        !.fresh = Append(st.fresh, NewInfo(st.next, b)),
        !.keys = PutKey(st.keys, st.next),
        !.next = NextId(st.next)]

\* one pass of "for box in boxes_xyxy"
AssocPass(st, b) ==
    LET best == BestMatch(b, st.tracked)
    IN  IF IsMatch(best) THEN PassMatch(st, b, best.id) ELSE PassNew(st, b)

RECURSIVE AssocFrom(_, _, _)
AssocFrom(st, bs, k) ==
    IF k > Len(bs) THEN st ELSE AssocFrom(AssocPass(st, bs[k]), bs, k + 1)

\* the whole loop over the frame's candidates
Associate(tr, n, bs) == AssocFrom(FrameStart(tr, n), bs, 1)

\* the info dict new_tracked holds under a key: a dict of tracked, or the
\* one last stored under a key created in this frame
InfoOf(st, id) ==
    IF id \in Ids(st.tracked) THEN At(st.tracked, id)
    ELSE st.fresh[CHOOSE k \in 1..Len(st.fresh) :
                    /\ st.fresh[k].id = id
                    /\ \A j \in (k + 1)..Len(st.fresh) : st.fresh[j].id # id]

\* faulty variant of AgedInfo: the miss is not counted
NotAgedInfo(info) == info
\* "info["misses"] += 1"
AgedInfo(info) == [info EXCEPT !.misses = @ + 1]

\* faulty variant of Carried: misses < MAX_MISSES
CarriedStrict(info) == info.misses < MAX_MISSES
\* "if info["misses"] <= MAX_MISSES"
Carried(info) == info.misses <= MAX_MISSES

\* "Increase misses for tracks not matched this frame", then
\* "tracked = new_tracked": the matched and the new tracks in the order
\* they were stored, then the carried tracks in the old dict's order
AgeAndReplace(st) ==
    LET unmatched == SelectSeq(st.tracked, LAMBDA t : t.id \notin st.used)
        aged == [k \in 1..Len(unmatched) |-> AgedInfo(unmatched[k])]
    IN  [k \in 1..Len(st.keys) |-> InfoOf(st, st.keys[k])]
        \o SelectSeq(aged, Carried)

\* faulty variant of IsStable: count > STABLE_FRAMES_REQUIRED
IsStableStrict(info) == info.count > STABLE_FRAMES_REQUIRED
\* "if info["count"] >= STABLE_FRAMES_REQUIRED"
IsStable(info) == info.count >= STABLE_FRAMES_REQUIRED

\* faulty variant of StableIds: the tracks carried over a miss left out
StableIdsMatched(tr) ==
    { tr[k].id : k \in { j \in 1..Len(tr) : IsStable(tr[j]) /\ tr[j].misses = 0 } }
\* the tracks drawn as stable, and whose crop "c" writes
StableIds(tr) == { tr[k].id : k \in { j \in 1..Len(tr) : IsStable(tr[j]) } }

\* what detectMultiScale may return, as (x, y, w, h): a face A; B, the same
\* face five rows lower (IoU 1/3 with A); C, a taller box around B (IoU 5/8
\* with B, and exactly 3/10 with A)
Rects == << <<0, 0, 9, 9>>, <<0, 5, 9, 9>>, <<0, 4, 9, 15>> >>

\* the detections of one frame: the rectangles at the positions S
Detections(S) ==
    LET at == SelectSeq([k \in 1..Len(Rects) |-> k], LAMBDA k : k \in S)
    IN  [k \in 1..Len(at) |-> Rects[at[k]]]

\* history: a track matched or created in this frame adds a frame to its
\* run, any other track's run ends
ConsecAfter(st, tr) ==
    [id \in Ids(tr) |->
        LET old == IF id \in DOMAIN consec THEN consec[id] ELSE 0
        IN  IF old = STABLE_FRAMES_REQUIRED THEN old
            ELSE IF id \in st.used \/ id \in Ids(st.fresh) THEN old + 1
            ELSE 0]

\* history: the frame has one candidate, and either it found the table
\* empty or it follows a counted frame with that same candidate
SameAfter(cand) ==
    IF Len(cand) # 1 THEN 0
    ELSE IF tracked = <<>> THEN 1
    ELSE IF same > 0 /\ cand = boxes_xyxy THEN same + 1
    ELSE 0

InitLoop ==
    /\ tracked = <<>>
    /\ next_track_id = 0
    /\ boxes_xyxy = <<>>
    /\ used_track_ids = {}
    /\ saved = {}
    /\ consec = <<>>
    /\ gone = {}
    /\ same = 0
    /\ key = "unset"
    /\ pc = "read"
    /\ NmsIdle
    /\ PassIdle
    /\ RestIdle

\* boxes_xyxy after "Apply NMS": every list the conversion and the
\* suppression can make of a frame's detections
FrameCandidates ==
    UNION { non_max_suppression(
                [k \in 1..Len(Detections(S)) |-> rect_to_xyxy(Detections(S)[k])],
                None, NMS_OVERLAP_THRESH) : S \in SUBSET (1..Len(Rects)) }

\* One frame: cap.read() succeeds; detect, convert, suppress, associate,
\* age, replace.  The drawing that follows changes no state.
Frame ==
    /\ pc = "read"
    /\ \E cand \in FrameCandidates :
            \E st \in { Associate(tracked, next_track_id, cand) } :
            \E tr \in { AgeAndReplace(st) } :
                /\ st.next <= MaxTrackIds
                /\ \A k \in 1..Len(tr) : tr[k].count <= MaxCount
                /\ boxes_xyxy' = cand
                /\ used_track_ids' = st.used
                /\ next_track_id' = st.next
                /\ tracked' = tr
                /\ consec' = ConsecAfter(st, tr)
                /\ gone' = gone \cup (Ids(tracked) \ Ids(tr))
                /\ same' = SameAfter(cand)
    /\ saved' = {}
    /\ pc' = "key"
    /\ UNCHANGED <<key, nmsVars, passVars, restVars>>

\* cap.read() fails: "Empty frame. Exiting."
ReadFails ==
    /\ pc = "read"
    /\ pc' = "done"
    /\ UNCHANGED <<tracked, next_track_id, boxes_xyxy, used_track_ids, key, saved,
                   consec, gone, same, nmsVars, passVars, restVars>>

\* key == ord('c')
KeyCapture ==
    /\ pc = "key"
    /\ key' = "c"
    /\ saved' = StableIds(tracked)
    /\ pc' = "read"
    /\ UNCHANGED <<tracked, next_track_id, boxes_xyxy, used_track_ids, consec,
                   gone, same, nmsVars, passVars, restVars>>

\* key == ord('q')
KeyQuit ==
    /\ pc = "key"
    /\ key' = "q"
    /\ pc' = "done"
    /\ UNCHANGED <<tracked, next_track_id, boxes_xyxy, used_track_ids, saved,
                   consec, gone, same, nmsVars, passVars, restVars>>

\* any other key, or none within the wait
KeyOther ==
    /\ pc = "key"
    /\ key' = "other"
    /\ pc' = "read"
    /\ UNCHANGED <<tracked, next_track_id, boxes_xyxy, used_track_ids, saved,
                   consec, gone, same, nmsVars, passVars, restVars>>

Init == InitLoop
Next ==
    \/ Frame
    \/ ReadFails
    \/ KeyCapture
    \/ KeyQuit
    \/ KeyOther
Spec == Init /\ [][Next]_vars

(***************************************************************************)
(* Step under test: one pass of "for box in boxes_xyxy" (lines 149-171)    *)
(***************************************************************************)
\* boxes tried as candidate and as a track's last box: the three faces, a
\* rectangle of zero size, one of negative width and non-zero area, and one
\* of zero area
PassBoxes ==
    { rect_to_xyxy(Rects[k]) : k \in 1..Len(Rects) } \cup
    { rect_to_xyxy(<<4, 4, 0, 0>>), rect_to_xyxy(<<5, 5, -2, 4>>),
      rect_to_xyxy(<<5, 5, -1, 4>>) }

\* a track created in this or an earlier frame, one matched before, and
\* one carried over a miss
TrackShapes ==
    { [count |-> 1, misses |-> 0], [count |-> 2, misses |-> 0],
      [count |-> 2, misses |-> 1] }

\* the tables of up to MaxTable tracks; the track at place k has id k - 1
PassTables ==
    UNION { { [k \in 1..n |-> [id |-> k - 1, count |-> sh[k].count,
                               last_xyxy |-> bx[k], misses |-> sh[k].misses]] :
                sh \in [1..n -> TrackShapes], bx \in [1..n -> PassBoxes] } :
            n \in 0..MaxTable }

\* the pass starts in a frame in which the tracks of used_track_ids have
\* been matched by earlier candidates and no track has been created yet
InitPass ==
    /\ tracked \in PassTables
    /\ next_track_id \in Len(tracked)..(Len(tracked) + 1)
    /\ used_track_ids \in SUBSET { tracked[k].id : k \in
                           { j \in 1..Len(tracked) :
                               tracked[j].count > 1 /\ tracked[j].misses = 0 } }
    /\ new_tracked = SelectSeq([k \in 1..Len(tracked) |-> tracked[k].id],
                               LAMBDA id : id \in used_track_ids)
    /\ fresh = <<>>
    /\ box \in PassBoxes
    /\ boxes_xyxy = <<>> /\ saved = {} /\ consec = <<>> /\ gone = {}
    /\ same = 0 /\ key = "unset"
    /\ pc = "pass"
    /\ NmsIdle
    /\ RestIdle

PassResult ==
    AssocPass([tracked |-> tracked, keys |-> new_tracked, fresh |-> fresh,
               used |-> used_track_ids, next |-> next_track_id], box)

\* the pass takes the branch "Match found"
PassMatches ==
    /\ pc = "pass"
    /\ IsMatch(BestMatch(box, tracked))
    /\ tracked' = PassResult.tracked
    /\ new_tracked' = PassResult.keys
    /\ fresh' = PassResult.fresh
    /\ used_track_ids' = PassResult.used
    /\ next_track_id' = PassResult.next
    /\ pc' = "passed"
    /\ UNCHANGED <<box, boxes_xyxy, key, saved, consec, gone, same, nmsVars,
                   restVars>>

\* the pass takes the branch "No good match"
PassCreates ==
    /\ pc = "pass"
    /\ ~IsMatch(BestMatch(box, tracked))
    /\ tracked' = PassResult.tracked
    /\ new_tracked' = PassResult.keys
    /\ fresh' = PassResult.fresh
    /\ used_track_ids' = PassResult.used
    /\ next_track_id' = PassResult.next
    /\ pc' = "passed"
    /\ UNCHANGED <<box, boxes_xyxy, key, saved, consec, gone, same, nmsVars,
                   restVars>>

NextPass == PassMatches \/ PassCreates
SpecPass == InitPass /\ [][NextPass]_vars

(***************************************************************************)
(* Function under test: iou_xyxy(a, b)                                     *)
(***************************************************************************)
\* every box with coordinates in 0..MaxCoord, x2 < x1 and y2 < y1 included
IouBoxes ==
    { <<x1, y1, x2, y2>> : x1 \in 0..MaxCoord, y1 \in 0..MaxCoord,
                           x2 \in 0..MaxCoord, y2 \in 0..MaxCoord }

InitIou ==
    /\ iou_a \in IouBoxes
    /\ iou_b \in IouBoxes
    /\ iou_ab = Zero /\ iou_ba = Zero /\ iou_aa = Zero
    /\ iou_pc = "call"
    /\ NmsIdle
    /\ LoopIdle
    /\ PassIdle
    /\ BuilderIdle
    /\ AppIdle

\* the calls iou_xyxy(a, b), iou_xyxy(b, a) and iou_xyxy(a, a)
CallIou ==
    /\ iou_pc = "call"
    /\ iou_ab' = iou_xyxy(iou_a, iou_b)
    /\ iou_ba' = iou_xyxy(iou_b, iou_a)
    /\ iou_aa' = iou_xyxy(iou_a, iou_a)
    /\ iou_pc' = "ret"
    /\ UNCHANGED <<iou_a, iou_b, nmsVars, loopVars, passVars, builderVars,
                   appVars>>

NextIou == CallIou
SpecIou == InitIou /\ [][NextIou]_vars

(***************************************************************************)
(* build_dataset of dataset_builder.py                                     *)
(***************************************************************************)
TARGET_IMAGES == 60
STABLE_FRAMES == 3

\* what cv2.waitKey(1) & 0xFF is compared with: ord('q'), 32, ord('s'),
\* and anything else
Keys == {"q", "space", "s", "other"}

\* faulty variant of Counted: a frame without a face leaves the count
CountedNoReset(face) == IF face THEN stable_count + 1 ELSE stable_count
\* stable_count after "if len(faces) > 0: ... else: ..."
Counted(face) == IF face THEN stable_count + 1 ELSE 0

\* auto_mode after "if key == 32"
Toggled(pressed) == IF pressed = "space" THEN ~auto_mode ELSE auto_mode

\* "if auto_mode: if stable_count >= STABLE_FRAMES and len(faces) > 0"
AutoSaves(face, pressed) ==
    Toggled(pressed) /\ Counted(face) >= STABLE_FRAMES /\ face

\* "else: if key == ord('s') and len(faces) > 0"
ManualSaves(face, pressed) == ~Toggled(pressed) /\ pressed = "s" /\ face

\* faulty variant of TargetReached: captured > TARGET_IMAGES
TargetPassed(n) == n > TARGET_IMAGES
\* "if captured >= TARGET_IMAGES: break"
TargetReached(n) == n >= TARGET_IMAGES

\* history of the processed frames
FaceRunAfter(face) ==
    IF ~face THEN 0
    ELSE IF face_run < STABLE_FRAMES THEN face_run + 1 ELSE face_run
SinceAfter(auto) ==
    IF auto THEN 0
    ELSE IF since_auto < STABLE_FRAMES THEN since_auto + 1 ELSE since_auto

InitBuilder ==
    /\ captured = 0
    /\ auto_mode = TRUE
    /\ stable_count = 0
    /\ ds_pc = "loop"
    /\ ds_last = "none"
    /\ ds_idx = {}
    /\ face_run = 0
    /\ since_auto = STABLE_FRAMES
    /\ NmsIdle
    /\ LoopIdle
    /\ PassIdle
    /\ IouIdle
    /\ AppIdle

\* "if not ret: ... continue"
ReadEmpty ==
    /\ ds_pc = "loop"
    /\ ds_last' = "empty"
    /\ UNCHANGED <<captured, auto_mode, stable_count, ds_pc, ds_idx, face_run,
                   since_auto, nmsVars, loopVars, passVars, iouVars, appVars>>

\* an iteration that ends at "if key == ord('q'): break"
IterQuit ==
    /\ ds_pc = "loop"
    /\ \E face \in BOOLEAN :
          /\ Counted(face) <= MaxStable
          /\ stable_count' = Counted(face)
          /\ face_run' = FaceRunAfter(face)
    /\ since_auto' = SinceAfter(FALSE)
    /\ ds_last' = "quit"
    /\ ds_pc' = "done"
    /\ UNCHANGED <<captured, auto_mode, ds_idx, nmsVars, loopVars, passVars,
                   iouVars, appVars>>

\* an iteration that saves in auto mode
IterAutoSave ==
    /\ ds_pc = "loop"
    /\ \E face \in BOOLEAN, pressed \in Keys \ {"q"} :
          /\ Counted(face) <= MaxStable
          /\ AutoSaves(face, pressed)
          /\ auto_mode' = Toggled(pressed)
          /\ face_run' = FaceRunAfter(face)
    /\ ds_idx' = ds_idx \cup {captured}
    /\ captured' = captured + 1
    /\ stable_count' = 0
    /\ since_auto' = SinceAfter(TRUE)
    /\ ds_last' = "auto"
    /\ ds_pc' = IF TargetReached(captured + 1) THEN "done" ELSE "loop"
    /\ UNCHANGED <<nmsVars, loopVars, passVars, iouVars, appVars>>

\* an iteration that saves in manual mode
IterManualSave ==
    /\ ds_pc = "loop"
    /\ \E face \in BOOLEAN, pressed \in Keys \ {"q"} :
          /\ Counted(face) <= MaxStable
          /\ ManualSaves(face, pressed)
          /\ auto_mode' = Toggled(pressed)
          /\ stable_count' = Counted(face)
          /\ face_run' = FaceRunAfter(face)
    /\ ds_idx' = ds_idx \cup {captured}
    /\ captured' = captured + 1
    /\ since_auto' = SinceAfter(FALSE)
    /\ ds_last' = "manual"
    /\ ds_pc' = IF TargetReached(captured + 1) THEN "done" ELSE "loop"
    /\ UNCHANGED <<nmsVars, loopVars, passVars, iouVars, appVars>>

\* an iteration that saves nothing
IterNoSave ==
    /\ ds_pc = "loop"
    /\ \E face \in BOOLEAN, pressed \in Keys \ {"q"} :
          /\ Counted(face) <= MaxStable
          /\ ~AutoSaves(face, pressed)
          /\ ~ManualSaves(face, pressed)
          /\ auto_mode' = Toggled(pressed)
          /\ stable_count' = Counted(face)
          /\ face_run' = FaceRunAfter(face)
    /\ since_auto' = SinceAfter(FALSE)
    /\ ds_last' = "none"
    /\ ds_pc' = IF TargetReached(captured) THEN "done" ELSE "loop"
    /\ UNCHANGED <<captured, ds_idx, nmsVars, loopVars, passVars, iouVars, appVars>>

NextBuilder ==
    \/ ReadEmpty
    \/ IterQuit
    \/ IterAutoSave
    \/ IterManualSave
    \/ IterNoSave
SpecBuilder == InitBuilder /\ [][NextBuilder]_vars

(***************************************************************************)
(* The launcher app.py: the runs of the page in one session                *)
(***************************************************************************)
\* the values of SCRIPTS
Scripts == {"dataset_builder.py", "train_recognizer.py", "recognize_live.py"}

\* st.session_state.processes.get(script_name) when nothing is stored
NoProc == 0

\* proc.poll() is None
Polls(proc) == launched[proc].running

\* faulty variant of IsRunning: "proc.poll() is not None"
IsRunningInverted(script) ==
    processes[script] # NoProc /\ ~Polls(processes[script])
\* "proc is not None and proc.poll() is None"
IsRunning(script) ==
    processes[script] # NoProc /\ Polls(processes[script])

\* a request of a run: the button pressed and its script
Request(kind, script) == [kind |-> kind, script |-> script]

InitApp ==
    /\ processes = [script \in Scripts |-> NoProc]
    /\ launched = <<>>
    /\ app_req = Request("none", "")
    /\ app_msg = ""
    /\ NmsIdle
    /\ LoopIdle
    /\ PassIdle
    /\ IouIdle
    /\ BuilderIdle

\* "if start_btn:", the else branch: start_script returns a handle, which
\* is stored
StartSpawns ==
    \E script \in Scripts :
        /\ ~IsRunning(script)
        /\ Len(launched) < MaxLaunches
        /\ launched' = Append(launched, [script |-> script, running |-> TRUE])
        /\ processes' = [processes EXCEPT ![script] = Len(launched) + 1]
        /\ app_req' = Request("start", script)
        /\ app_msg' = "Started"
        /\ UNCHANGED <<nmsVars, loopVars, passVars, iouVars, builderVars>>

\* "if start_btn:", the else branch: subprocess.Popen raises
StartFails ==
    \E script \in Scripts :
        /\ ~IsRunning(script)
        /\ app_req' = Request("start", script)
        /\ app_msg' = "Failed to start"
        /\ UNCHANGED <<processes, launched, nmsVars, loopVars, passVars, iouVars,
                       builderVars>>

\* "if start_btn:" with the stored process running
StartRefused ==
    \E script \in Scripts :
        /\ IsRunning(script)
        /\ app_req' = Request("start", script)
        /\ app_msg' = "Process already running."
        /\ UNCHANGED <<processes, launched, nmsVars, loopVars, passVars, iouVars,
                       builderVars>>

\* "if stop_btn:" with nothing stored
StopNothing ==
    \E script \in Scripts :
        /\ processes[script] = NoProc
        /\ app_req' = Request("stop", script)
        /\ app_msg' = "No process to stop."
        /\ UNCHANGED <<processes, launched, nmsVars, loopVars, passVars, iouVars,
                       builderVars>>

\* "if stop_btn:" with a stored handle: stop_process, then the handle is
\* stored again.  terminate() and kill() may raise, which is passed over,
\* so a running process may be left running.
StopStored ==
    \E script \in Scripts :
        /\ processes[script] # NoProc
        /\ \E still \in { r \in BOOLEAN : r => Polls(processes[script]) } :
              launched' = [launched EXCEPT ![processes[script]].running = still]
        /\ app_req' = Request("stop", script)
        /\ app_msg' = "Stop requested."
        /\ UNCHANGED <<processes, nmsVars, loopVars, passVars, iouVars,
                       builderVars>>

\* a launched script ends by itself
ProcessExits ==
    \E proc \in 1..Len(launched) :
        /\ Polls(proc)
        /\ launched' = [launched EXCEPT ![proc].running = FALSE]
        /\ UNCHANGED <<processes, app_req, app_msg, nmsVars, loopVars, passVars,
                       iouVars, builderVars>>

NextApp ==
    \/ StartSpawns
    \/ StartFails
    \/ StartRefused
    \/ StopNothing
    \/ StopStored
    \/ ProcessExits
SpecApp == InitApp /\ [][NextApp]_vars

(***************************************************************************)
(* Properties                                                              *)
(***************************************************************************)
\* a step of the main loop that processes a frame
FrameStep == pc = "read" /\ pc' = "key"

\* C1: in every frame, a track that is in the table before and after the
\* frame's update has its count grown by at most 1.
C1_AtMostOneMatchPerFrame ==
    [][FrameStep =>
        \A id \in Ids(tracked) \cap Ids(tracked') :
            At(tracked', id).count <= At(tracked, id).count + 1]_vars

\* C2: the tracks of the table have pairwise different ids, all below the
\* next-id counter; the counter never decreases; and an id that enters the
\* table is not below the counter, so it was never assigned before and is
\* not the id of a dropped track.
C2_IdsNeverReused ==
    /\ [](/\ \A j, k \in 1..Len(tracked) :
                j # k => tracked[j].id # tracked[k].id
          /\ \A id \in Ids(tracked) \cup gone : id < next_track_id)
    /\ [][FrameStep =>
            /\ next_track_id' >= next_track_id
            /\ \A id \in Ids(tracked') \ Ids(tracked) :
                  id >= next_track_id /\ id \notin gone]_vars

\* C2, reached: the table holds a track created after an earlier one was
\* dropped, and a frame has emptied the table before
C2_Witness ==
    /\ pc = "key"
    /\ gone # {}
    /\ \E id \in Ids(tracked) : \E e \in gone : e < id

\* C3: every track of the table has 0 <= misses <= MAX_MISSES; a frame
\* that does not match a track keeps it, with one more miss, while it has
\* fewer than MAX_MISSES misses, and drops it at its (MAX_MISSES+1)-th
\* consecutive miss; a matched track has no miss; a dropped id is never in
\* the table again.
C3_MissBudget ==
    /\ [](/\ \A k \in 1..Len(tracked) :
                tracked[k].misses >= 0 /\ tracked[k].misses <= MAX_MISSES
          /\ Ids(tracked) \cap gone = {})
    /\ [][FrameStep =>
            \A k \in 1..Len(tracked) :
                LET t == tracked[k]
                IN  IF t.id \in used_track_ids'
                    THEN t.id \in Ids(tracked') /\ At(tracked', t.id).misses = 0
                    ELSE IF t.misses < MAX_MISSES
                    THEN /\ t.id \in Ids(tracked')
                         /\ At(tracked', t.id).misses = t.misses + 1
                    ELSE t.id \notin Ids(tracked') /\ t.id \in gone']_vars

\* C3, reached: one track has just been dropped while another is carried
\* with MAX_MISSES misses
C3_Witness ==
    /\ pc = "key"
    /\ gone # {}
    /\ \E k \in 1..Len(tracked) : tracked[k].misses = MAX_MISSES

\* a box with x1 <= x2 and y1 <= y2
WellFormed(b) == b[1] <= b[3] /\ b[2] <= b[4]

\* the position of index i in the rank order
RankOf(i) == CHOOSE k \in 1..Len(idxs) : idxs[k] = i
Picked(i) == InSeq(i, pick)
Overlap(i, j) == QGt(iou_xyxy(boxes[i], boxes[j]), iou_threshold)
SameRank(i, j) == RankKey(boxes, scores)[i] = RankKey(boxes, scores)[j]

\* C4: when every argument box has x1 <= x2 and y1 <= y2, any two boxes at
\* different places of the returned list have IoU <= iou_threshold.
C4_PairwiseBelowThreshold ==
    (nms_pc = "ret" /\ \A k \in 1..Len(boxes) : WellFormed(boxes[k])) =>
        \A j, k \in 1..Len(nms_result) :
            j # k => QLe(iou_xyxy(nms_result[j], nms_result[k]), iou_threshold)

\* C4, reached: a call that suppressed a box and returned two
C4_Witness ==
    /\ nms_pc = "ret"
    /\ \A k \in 1..Len(boxes) : WellFormed(boxes[k])
    /\ Len(nms_result) >= 2
    /\ Len(nms_result) < Len(boxes)

\* C5 as stated: boxes of equal rank are considered in input order, and of
\* two equally ranked boxes that overlap above the threshold the later one
\* in the input is kept only if a third, picked box suppressed the earlier.
C5_TiesInInputOrder ==
    nms_pc = "ret" =>
        \A i, j \in 1..Len(boxes) :
            (i < j /\ SameRank(i, j)) =>
                /\ RankOf(i) < RankOf(j)
                /\ (Overlap(i, j) /\ Picked(j)) =>
                      \E k \in 1..Len(boxes) :
                          k # i /\ k # j /\ Picked(k) /\ Overlap(k, i)

\* C5 as amended: boxes of equal rank are considered in the order the
\* reversed argsort left them in, whatever their places in the input; of
\* two equally ranked boxes that overlap above the threshold at most one
\* is kept, and the one considered later is kept only if a box picked
\* before the earlier one suppressed it.
C5_TiesInRankOrder ==
    nms_pc = "ret" =>
        \A i, j \in 1..Len(boxes) :
            (i # j /\ SameRank(i, j) /\ Overlap(i, j)) =>
                /\ ~(Picked(i) /\ Picked(j))
                /\ (RankOf(i) < RankOf(j) /\ Picked(j)) =>
                      \E k \in 1..Len(boxes) :
                          /\ Picked(k) /\ RankOf(k) < RankOf(i)
                          /\ Overlap(k, i)

\* C5, reached: of two equally ranked boxes that overlap above the
\* threshold, the one later in the input is kept and the earlier is not
C5_Witness ==
    /\ nms_pc = "ret"
    /\ \E i, j \in 1..Len(boxes) :
          /\ i < j /\ SameRank(i, j) /\ Overlap(i, j)
          /\ Picked(j) /\ ~Picked(i)
          /\ \A k \in 1..Len(boxes) : Picked(k) => ~Overlap(k, i) \/ k = j

\* C6: a track drawn as stable has been matched (or created and matched)
\* in STABLE_FRAMES_REQUIRED consecutive frames.
C6_StableOnlyAfterConsecutive ==
    pc = "key" =>
        \A k \in 1..Len(tracked) :
            IsStable(tracked[k]) => consec[tracked[k].id] = STABLE_FRAMES_REQUIRED

\* C7: after a frame's update each candidate is the last box of a track of
\* its own with no miss: as many tracks have no miss as there are
\* candidates.
C7_EachCandidateOwnTrack ==
    pc = "key" =>
        /\ Cardinality({ k \in 1..Len(tracked) : tracked[k].misses = 0 })
              = Len(boxes_xyxy)
        /\ \A j \in 1..Len(boxes_xyxy) :
              \E k \in 1..Len(tracked) :
                  tracked[k].last_xyxy = boxes_xyxy[j] /\ tracked[k].misses = 0

\* the tracks whose last box overlaps the candidate most
Closest(b, tr) ==
    { k \in 1..Len(tr) :
        \A j \in 1..Len(tr) :
            QLe(iou_xyxy(b, tr[j].last_xyxy), iou_xyxy(b, tr[k].last_xyxy)) }

\* C8: a pass updates a track only if no track's last box has a higher IoU
\* with the candidate and that IoU is strictly above 0.3: then that track
\* gets count + 1, the candidate as last box and no miss, the others stay
\* as they are and no track is created.  Otherwise, also when the IoU is
\* exactly 0.3 or the table is empty, no track changes and one track is
\* created with count 1, no miss, the candidate as last box and the next
\* unused id.
C8_MatchBestAboveThreshold ==
    [][pc = "pass" =>
        IF \E k \in Closest(box, tracked) :
              QGt(iou_xyxy(box, tracked[k].last_xyxy), MATCH_THRESH)
        THEN /\ \E k \in Closest(box, tracked) :
                  tracked' = [tracked EXCEPT ![k] =
                                 [id |-> tracked[k].id,
                                  count |-> tracked[k].count + 1,
                                  last_xyxy |-> box,
                                  misses |-> 0]]
             /\ fresh' = fresh
             /\ next_track_id' = next_track_id
        ELSE /\ tracked' = tracked
             /\ fresh' = Append(fresh, [id |-> next_track_id, count |-> 1,
                                        last_xyxy |-> box, misses |-> 0])
             /\ next_track_id \notin Ids(tracked)
             /\ next_track_id' = next_track_id + 1]_vars

\* C8, reached: a pass created a track although a track's last box has
\* IoU exactly 0.3 with the candidate
C8_Witness ==
    /\ pc = "passed"
    /\ Len(fresh) = 1
    /\ fresh[1].last_xyxy = box
    /\ \E k \in 1..Len(tracked) :
          QEq(iou_xyxy(box, tracked[k].last_xyxy), MATCH_THRESH)

\* C9: a frame that does not match a track whose misses + 1 is at most
\* MAX_MISSES keeps the track with the same id, last box and count and
\* one more miss; a frame without candidates ages every track so, drops
\* the others, creates no track and leaves the next-id counter alone.
C9_CarriedUnchanged ==
    [][FrameStep =>
        /\ \A k \in 1..Len(tracked) :
              (tracked[k].id \notin used_track_ids'
                 /\ tracked[k].misses + 1 <= MAX_MISSES) =>
                  \E j \in 1..Len(tracked') :
                      tracked'[j] = [id |-> tracked[k].id,
                                     count |-> tracked[k].count,
                                     last_xyxy |-> tracked[k].last_xyxy,
                                     misses |-> tracked[k].misses + 1]
        /\ boxes_xyxy' = <<>> =>
              /\ next_track_id' = next_track_id
              /\ Ids(tracked') =
                    { tracked[k].id : k \in
                        { j \in 1..Len(tracked) :
                            tracked[j].misses + 1 <= MAX_MISSES } }
              /\ \A j \in 1..Len(tracked') :
                    tracked'[j].misses = At(tracked, tracked'[j].id).misses + 1]_vars

\* C9, reached: a frame without candidates has carried a track that had
\* been matched before
C9_Witness ==
    /\ pc = "key"
    /\ boxes_xyxy = <<>>
    /\ \E k \in 1..Len(tracked) :
          tracked[k].misses = 1 /\ tracked[k].count > 1

\* zero or negative width or height: x2 <= x1 or y2 <= y1
Degenerate(b) == b[3] <= b[1] \/ b[4] <= b[2]
\* negative width or height: x2 < x1 or y2 < y1
Negative(b) == b[3] < b[1] \/ b[4] < b[2]

\* C10 as stated: a candidate with x2 <= x1 or y2 <= y1 has IoU 0 with
\* every box, and its pass changes no track.
C10_DegenerateNeverMatched ==
    [][(pc = "pass" /\ Degenerate(box)) =>
        /\ \A b \in PassBoxes : QEq(iou_xyxy(box, b), Zero)
        /\ tracked' = tracked]_vars

\* C10 as amended: a candidate with x2 < x1 or y2 < y1 has IoU 0 with
\* every box, and its pass changes no track and creates one.
C10_NegativeNeverMatched ==
    [][(pc = "pass" /\ Negative(box)) =>
        /\ \A b \in PassBoxes :
              QEq(iou_xyxy(box, b), Zero) /\ QEq(iou_xyxy(b, box), Zero)
        /\ tracked' = tracked
        /\ Len(fresh') = Len(fresh) + 1]_vars

\* C10, reached: a pass created a track for a candidate of negative width
\* although a track has the very same box as its last box
C10_Witness ==
    /\ pc = "passed"
    /\ Negative(box)
    /\ Len(fresh) = 1
    /\ \E k \in 1..Len(tracked) : tracked[k].last_xyxy = box

\* C11: every track of the table has count >= 1; in every step a track
\* that stays in the table keeps or grows its count; hence a track that is
\* stable stays stable for as long as it is in the table.
C11_CountNeverDecreases ==
    /\ [](\A k \in 1..Len(tracked) : tracked[k].count >= 1)
    /\ [][\A id \in Ids(tracked) \cap Ids(tracked') :
            /\ At(tracked', id).count >= At(tracked, id).count
            /\ IsStable(At(tracked, id)) => IsStable(At(tracked', id))]_vars

\* C11, reached: a stable track has been carried over a miss, still stable,
\* beside a track that is not stable
C11_Witness ==
    /\ pc = "key"
    /\ \E j, k \in 1..Len(tracked) :
          /\ IsStable(tracked[j]) /\ tracked[j].misses = 1
          /\ ~IsStable(tracked[k])

\* C12: the picked indices are indices of the argument list and pairwise
\* different, the returned list is the argument boxes at those indices, so
\* it is no longer than the argument list; no box gives the empty list and
\* one box gives that box.
C12_OutputSubsetOfInput ==
    nms_pc = "ret" =>
        /\ \A k \in 1..Len(pick) : pick[k] \in 1..Len(boxes)
        /\ \A j, k \in 1..Len(pick) : j # k => pick[j] # pick[k]
        /\ Len(nms_result) = Len(pick)
        /\ \A k \in 1..Len(pick) : nms_result[k] = boxes[pick[k]]
        /\ Len(nms_result) <= Len(boxes)
        /\ Len(boxes) = 0 => nms_result = <<>>
        /\ Len(boxes) = 1 => nms_result = <<boxes[1]>>

\* C12, reached: a call with the same box at two places of the argument
\* list returned it once, with another box
C12_Witness ==
    /\ nms_pc = "ret"
    /\ \E i, j \in 1..Len(boxes) : i # j /\ boxes[i] = boxes[j]
    /\ Len(nms_result) = 2
    /\ nms_result[1] # nms_result[2]

\* the pairs of places of the argument list whose boxes overlap above the
\* threshold
OverlapPairs ==
    { pr \in (1..Len(boxes)) \X (1..Len(boxes)) :
        pr[1] < pr[2] /\ Overlap(pr[1], pr[2]) }

\* the call returned greedily by rank
GreedyByRank ==
    /\ scores = None =>
          \A i \in 1..Len(boxes) :
              (\A j \in 1..Len(boxes) : j # i => Area(boxes[i]) > Area(boxes[j]))
                  => Picked(i)
    /\ \A j \in 1..Len(boxes) :
          ~Picked(j) =>
              \E i \in 1..Len(boxes) :
                  /\ Picked(i)
                  /\ RankKey(boxes, scores)[i] >= RankKey(boxes, scores)[j]
                  /\ Overlap(i, j)
    /\ \A pr \in OverlapPairs :
          OverlapPairs = {pr} =>
              \E i, j \in {pr[1], pr[2]} :
                  /\ i # j /\ Picked(i) /\ ~Picked(j)
                  /\ RankKey(boxes, scores)[i] >= RankKey(boxes, scores)[j]

\* C13: a returned call has kept a box of strictly largest area (no scores
\* given); every box it discarded has IoU > iou_threshold with a kept box
\* of rank at least as high; and when exactly two of the argument boxes
\* overlap above the threshold, exactly one of the two is kept, one that
\* ranks at least as high as the other.
C13_GreedyByRank == nms_pc = "ret" => GreedyByRank

\* C14: after k frames in a row, the first finding the table empty, that
\* all had the same single candidate, the table holds exactly one track,
\* with count k, no miss and the candidate as last box; it is reported
\* stable exactly when k >= STABLE_FRAMES_REQUIRED; its id is the one the
\* first of the frames assigned.
C14_SameBoxEveryFrame ==
    /\ []((pc = "key" /\ same > 0) =>
            /\ Len(tracked) = 1
            /\ tracked[1].count = same
            /\ tracked[1].misses = 0
            /\ tracked[1].last_xyxy = boxes_xyxy[1]
            /\ StableIds(tracked) =
                  (IF same >= STABLE_FRAMES_REQUIRED THEN {tracked[1].id} ELSE {}))
    /\ [][(FrameStep /\ same' = 1) => tracked'[1].id = next_track_id]_vars
    /\ [][(FrameStep /\ same' > 1) => tracked'[1].id = tracked[1].id]_vars

\* C14, reached: the fourth frame in a row with the same single candidate,
\* in a session that had dropped a track before
C14_Witness ==
    /\ pc = "key"
    /\ same = STABLE_FRAMES_REQUIRED + 1
    /\ gone # {}

\* the quotient 1
One == <<1, 1>>

\* C15: for boxes a, b with x1 <= x2 and y1 <= y2, iou_xyxy(a, b) equals
\* iou_xyxy(b, a), lies between 0 and 1, and iou_xyxy(a, a) is 1.
C15_IouSymmetricBounded ==
    (iou_pc = "ret" /\ WellFormed(iou_a) /\ WellFormed(iou_b)) =>
        /\ QEq(iou_ab, iou_ba)
        /\ QLe(Zero, iou_ab) /\ QLe(iou_ab, One)
        /\ Inter(iou_a, iou_b) <= Area(iou_a) + Area(iou_b) - Inter(iou_a, iou_b)
        /\ QEq(iou_aa, One)

\* C15, reached: two different boxes that overlap in part, with an IoU
\* strictly between 0 and 1
C15_Witness ==
    /\ iou_pc = "ret"
    /\ WellFormed(iou_a) /\ WellFormed(iou_b)
    /\ iou_a # iou_b
    /\ QGt(iou_ab, Zero) /\ QGt(One, iou_ab)

\* the boxes of a list, as a set
BoxSet(bs) == { bs[k] : k \in 1..Len(bs) }

\* C16: a second call of non_max_suppression, on the list the first call
\* returned and with the same threshold, returns the same set of boxes and
\* removes none.
C16_NmsIdempotent ==
    nms_pc = "ret2" =>
        /\ BoxSet(nms_again) = BoxSet(nms_result)
        /\ Len(nms_again) = Len(nms_result)

\* C16, reached: the first call removed a box and returned two, the second
\* returned the two
C16_Witness ==
    /\ nms_pc = "ret2"
    /\ Len(nms_result) < Len(boxes)
    /\ Len(nms_result) = 2
    /\ Len(nms_again) = 2

\* a step that handles the key "c"
CaptureStep == pc = "key" /\ key' = "c"

\* C17: the handling of "c" writes a crop for exactly the tracks of the
\* table with count >= STABLE_FRAMES_REQUIRED, those carried over a miss
\* included, one file each, and changes neither the table nor the next-id
\* counter; the handling of another key writes nothing.
C17_CaptureStableOnly ==
    /\ [][CaptureStep =>
            /\ \A k \in 1..Len(tracked) :
                  tracked[k].id \in saved' <=>
                      tracked[k].count >= STABLE_FRAMES_REQUIRED
            /\ saved' \subseteq Ids(tracked)
            /\ tracked' = tracked
            /\ next_track_id' = next_track_id]_vars
    /\ [][(pc = "key" /\ key' # "c") => saved' = {}]_vars

\* C17, reached: "c" wrote the crop of a stable track carried over a miss
\* and none for a track that is not stable
C17_Witness ==
    /\ pc = "read"
    /\ key = "c"
    /\ \E j, k \in 1..Len(tracked) :
          /\ tracked[j].id \in saved /\ tracked[j].misses = 1
          /\ tracked[k].id \notin saved

\* C18: every step of build_dataset saves at most one image; a save uses
\* the value of captured before it as the idx of its filename, an idx no
\* earlier filename of the session has; captured never exceeds
\* TARGET_IMAGES; and the loop is left in the iteration in which captured
\* reaches TARGET_IMAGES.
C18_OneSavePerIteration ==
    /\ [](/\ captured <= TARGET_IMAGES
          /\ captured >= TARGET_IMAGES => ds_pc = "done"
          /\ ds_idx = 0..(captured - 1))
    /\ [][\/ captured' = captured /\ ds_idx' = ds_idx
          \/ /\ captured' = captured + 1
             /\ captured \notin ds_idx
             /\ ds_idx' = ds_idx \cup {captured}
             /\ ds_last' \in {"auto", "manual"}]_vars

\* C18, reached: the loop has ended with TARGET_IMAGES images, the last
\* saved in manual mode
C18_Witness ==
    /\ ds_pc = "done"
    /\ captured = TARGET_IMAGES
    /\ ds_last = "manual"
    /\ ~auto_mode

\* a step of build_dataset that saves in auto mode
AutoSaveStep == captured' = captured + 1 /\ ds_last' = "auto"

\* C19: an automatic save happens only in an iteration with auto mode on
\* whose frame and the STABLE_FRAMES - 1 processed frames before it all
\* had a face, and at least STABLE_FRAMES processed frames after the
\* automatic save before it; stable_count is 0 after a frame without a face
\* and after an automatic save.
C19_AutoSaveNeedsStableFaces ==
    /\ [][AutoSaveStep =>
            /\ auto_mode'
            /\ face_run' = STABLE_FRAMES
            /\ since_auto >= STABLE_FRAMES - 1
            /\ stable_count' = 0]_vars
    /\ [](/\ face_run = 0 => stable_count = 0
          /\ ds_last = "auto" => stable_count = 0
          /\ since_auto < STABLE_FRAMES => stable_count <= since_auto)

\* C19, reached: a second automatic save, the third frame after the first
C19_Witness ==
    /\ ds_last = "auto"
    /\ captured = 2
    /\ since_auto = 0
    /\ face_run = STABLE_FRAMES

\* the running processes launched for a script
RunningOf(script) ==
    { proc \in 1..Len(launched) :
        launched[proc].script = script /\ launched[proc].running }

\* C20: of the processes launched for a script at most one is running, and
\* it is the one whose handle is stored; a run starts a process only for a
\* Start request for a script whose stored handle is absent or has exited,
\* and then one process, whose handle it stores; a Start request for a
\* script whose stored process is running starts nothing and leaves the
\* stored handles as they are.
C20_OneProcessPerScript ==
    /\ [](\A script \in Scripts :
            /\ Cardinality(RunningOf(script)) <= 1
            /\ RunningOf(script) \subseteq {processes[script]})
    /\ [][Len(launched') # Len(launched) =>
            /\ app_req'.kind = "start"
            /\ \/ processes[app_req'.script] = NoProc
               \/ ~Polls(processes[app_req'.script])
            /\ launched' = Append(launched, [script |-> app_req'.script,
                                             running |-> TRUE])
            /\ processes' = [processes EXCEPT
                                ![app_req'.script] = Len(launched) + 1]]_vars
    /\ [][(app_req'.kind = "start" /\ IsRunning(app_req'.script)) =>
            /\ Len(launched') = Len(launched)
            /\ \A proc \in 1..Len(launched) :
                  launched'[proc].script = launched[proc].script
            /\ processes' = processes]_vars

\* C20, reached: a Start request for a script was refused while its second
\* process is running, the first having exited, and another script runs
C20_Witness ==
    /\ app_msg = "Process already running."
    /\ \E proc \in 1..Len(launched) :
          /\ launched[proc].script = app_req.script
          /\ ~launched[proc].running
          /\ RunningOf(app_req.script) # {}
    /\ \E script \in Scripts \ {app_req.script} : RunningOf(script) # {}

=============================================================================
